---- MODULE Spec2Model ----
(***************************************************************************)
(* Model of the Lox scanner of src/src/scanner.rs, and of the bytecode     *)
(* Chunk of src/src/bytecode.rs with its disassembler                      *)
(* (src/src/bytecode_interpreter.rs).  The two do not call each other:     *)
(* Spec runs the scanner, SpecChunk builds and disassembles a Chunk.       *)
(*                                                                         *)
(* The source text is a sequence of bytes (0..255), as Scanner.source is   *)
(* a Vec<u8>.  Offsets (start, current) are 0-based as in the code, so the *)
(* byte at offset i is source[i + 1].  One action is one iteration of the  *)
(* loop of scan_tokens, i.e. one whole call of scan_token.  A Rust panic   *)
(* (index out of bounds, unwrap of an Err, failed assert!) ends the scan   *)
(* in pc = "panicked" with the reason in fault.                            *)
(***************************************************************************)
EXTENDS Integers, Sequences, FiniteSets, TLC

VARIABLES source, line_string, tokens, spans, err, start, current, line, col,
          pc, fault,
          code, constants, call, ret, direct_strings

scanner_vars == <<source, line_string, tokens, spans, err, start, current,
                  line, col, pc, fault>>

\* the Chunk's two fields, the last call made on it and what it returned,
\* and whether add_constant was ever called directly with a String
chunk_vars == <<code, constants, call, ret, direct_strings>>

vars == <<scanner_vars, chunk_vars>>

(***************************************************************************)
(* Bounds of the model.                                                    *)
(***************************************************************************)
\* longest input enumerated over Alphabet, counted in characters
MaxLen == 3

\* most entries of the constant pool
MaxPool == 2

\* most instructions of the code
MaxCode == 2

(***************************************************************************)
(* Characters the scanner names, as byte values.                           *)
(***************************************************************************)
NUL == 0
TAB == 9
NL == 10
CR == 13
SPACE == 32
BANG == 33
QUOTE == 34
DOT == 46
SLASH == 47
LESS == 60
EQUALS == 61
GREATER == 62

\* '(' ')' '{' '}' '[' ']' ',' '.' '-' '+' ';' '*'
SingleCharTokens ==
    (40 :> "LeftParen") @@ (41 :> "RightParen") @@ (123 :> "LeftBrace") @@
    (125 :> "RightBrace") @@ (91 :> "LeftBracket") @@ (93 :> "RightBracket") @@
    (44 :> "Comma") @@ (46 :> "Dot") @@ (45 :> "Minus") @@ (43 :> "Plus") @@
    (59 :> "Semicolon") @@ (42 :> "Star")

keywords ==
    {  <<<<97, 110, 100>>, "And">>,                    \* and
       <<<<99, 108, 97, 115, 115>>, "Class">>,         \* class
       <<<<101, 108, 115, 101>>, "Else">>,             \* else
       <<<<102, 97, 108, 115, 101>>, "False">>,        \* false
       <<<<102, 111, 114>>, "For">>,                   \* for
       <<<<102, 117, 110>>, "Fun">>,                   \* fun
       <<<<105, 102>>, "If">>,                         \* if
       <<<<110, 105, 108>>, "Nil">>,                   \* nil
       <<<<111, 114>>, "Or">>,                         \* or
       <<<<112, 114, 105, 110, 116>>, "Print">>,       \* print
       <<<<114, 101, 116, 117, 114, 110>>, "Return">>, \* return
       <<<<115, 117, 112, 101, 114>>, "Super">>,       \* super
       <<<<116, 104, 105, 115>>, "This">>,             \* this
       <<<<116, 114, 117, 101>>, "True">>,             \* true
       <<<<118, 97, 114>>, "Var">>,                    \* var
       <<<<119, 104, 105, 108, 101>>, "While">>,       \* while
       <<<<108, 97, 109, 98, 100, 97>>, "Lambda">> }   \* lambda

\* HashMap::get on the keyword table; a miss is TokenType::Identifier
keywords_get(text) ==
    IF \E kw \in keywords : kw[1] = text
    THEN (CHOOSE kw \in keywords : kw[1] = text)[2]
    ELSE "Identifier"

(***************************************************************************)
(* Character classes.  The code classifies char::from(byte), i.e. the byte *)
(* read as a Latin-1 code point.                                           *)
(***************************************************************************)
\* char::is_alphabetic on U+0000..U+00FF
is_alpha(c) ==
    \/ c \in 65..90
    \/ c \in 97..122
    \/ c \in {170, 181, 186}
    \/ c \in 192..214
    \/ c \in 216..246
    \/ c \in 248..255

is_decimal_digit(c) == c \in 48..57

is_alphanumeric(c) == is_alpha(c) \/ is_alpha(c)

(***************************************************************************)
(* String::from_utf8: succeeds exactly on well-formed UTF-8, and then      *)
(* the String holds the same bytes.                                        *)
(***************************************************************************)
IsCont(b, i) == i <= Len(b) /\ b[i] \in 128..191

RECURSIVE Utf8From(_, _)
Utf8From(b, i) ==
    IF i > Len(b) THEN TRUE
    ELSE IF b[i] < 128 THEN Utf8From(b, i + 1)
    ELSE IF b[i] \in 194..223
         THEN IsCont(b, i + 1) /\ Utf8From(b, i + 2)
    ELSE IF b[i] \in 224..239
         THEN /\ IsCont(b, i + 1) /\ IsCont(b, i + 2)
              /\ (b[i] = 224 => b[i + 1] >= 160)
              /\ (b[i] = 237 => b[i + 1] <= 159)
              /\ Utf8From(b, i + 3)
    ELSE IF b[i] \in 240..244
         THEN /\ IsCont(b, i + 1) /\ IsCont(b, i + 2) /\ IsCont(b, i + 3)
              /\ (b[i] = 240 => b[i + 1] >= 144)
              /\ (b[i] = 244 => b[i + 1] <= 143)
              /\ Utf8From(b, i + 4)
    ELSE FALSE

from_utf8_ok(b) == Utf8From(b, 1)

(***************************************************************************)
(* str::parse::<f64> on the text number() hands it: a digit run with an    *)
(* optional '.' and fraction.  The value is kept as the exact decimal      *)
(* <<m, s>> = m / 10^s with no trailing fraction zero; for the short       *)
(* literals of the model distinct decimals are distinct f64 values.        *)
(***************************************************************************)
RECURSIVE DigitsValue(_)
DigitsValue(ds) ==
    IF ds = <<>> THEN 0
    ELSE 10 * DigitsValue(SubSeq(ds, 1, Len(ds) - 1)) + (ds[Len(ds)] - 48)

RECURSIVE Normalise(_, _)
Normalise(m, s) ==
    IF s > 0 /\ m % 10 = 0 THEN Normalise(m \div 10, s - 1) ELSE <<m, s>>

DotAt(b) == IF \E i \in 1..Len(b) : b[i] = DOT
            THEN CHOOSE i \in 1..Len(b) : b[i] = DOT /\ \A j \in 1..(i - 1) : b[j] # DOT
            ELSE 0

parse_f64_ok(b) ==
    /\ b # <<>>
    /\ \A i \in 1..Len(b) : is_decimal_digit(b[i]) \/ i = DotAt(b)
    /\ \E i \in 1..Len(b) : is_decimal_digit(b[i])

\* the text parsed as an integer, its fraction dropped
parse_f64_truncating(b) ==
    LET d == DotAt(b)
        ip == IF d = 0 THEN b ELSE SubSeq(b, 1, d - 1)
    IN <<DigitsValue(ip), 0>>

parse_f64(b) ==
    LET d == DotAt(b)
        ip == IF d = 0 THEN b ELSE SubSeq(b, 1, d - 1)
        fp == IF d = 0 THEN <<>> ELSE SubSeq(b, d + 1, Len(b))
    IN Normalise(DigitsValue(ip \o fp), Len(fp))

(***************************************************************************)
(* str::lines on the input: split at '\n', a "\r\n" ending loses its '\r', *)
(* and a final empty line is not a line.                                   *)
(***************************************************************************)
FirstNL(b) == IF \E i \in 1..Len(b) : b[i] = NL
              THEN CHOOSE i \in 1..Len(b) : b[i] = NL /\ \A j \in 1..(i - 1) : b[j] # NL
              ELSE 0

StripCR(b) == IF b # <<>> /\ b[Len(b)] = CR THEN SubSeq(b, 1, Len(b) - 1) ELSE b

RECURSIVE Lines(_)
Lines(b) ==
    IF b = <<>> THEN <<>>
    ELSE IF FirstNL(b) = 0 THEN <<b>>
    ELSE <<StripCR(SubSeq(b, 1, FirstNL(b) - 1))>>
         \o Lines(SubSeq(b, FirstNL(b) + 1, Len(b)))

(***************************************************************************)
(* The scanner's mutable fields as one record, so that the helper methods  *)
(* read as the code does: each takes the scanner and returns it changed.   *)
(* Field fault is "none" until a panic.                                    *)
(***************************************************************************)
Self == [tokens |-> tokens, spans |-> spans, err |-> err, start |-> start,
         current |-> current, line |-> line, col |-> col, fault |-> "none"]

Slice(from, to) == SubSeq(source, from + 1, to)

is_at_end(s) == s.current >= Len(source)

\* done() that forgets the error
done_ignores_err == is_at_end(Self)

\* done() whose end test is current > len, one step late
done_one_late == err # <<>> \/ current > Len(source)

done == err # <<>> \/ is_at_end(Self)

\* source[i] with Rust's bounds check
InBounds(i) == i >= 0 /\ i < Len(source)

peek(s) == IF is_at_end(s) THEN NUL ELSE source[s.current + 1]

\* the offset peek_next reads, when it reads
peek_next_offset(s) == s.current + 1

peek_next_panics(s) == ~is_at_end(s) /\ ~InBounds(peek_next_offset(s))

peek_next(s) == IF is_at_end(s) THEN NUL ELSE source[peek_next_offset(s) + 1]

advance(s) ==
    LET n == [s EXCEPT !.current = @ + 1, !.col = @ + 1]
    IN IF InBounds(n.current - 1) THEN n
       ELSE [n EXCEPT !.fault = "index out of bounds"]

\* the char advance returns
advanced_char(s) == source[s.current]

matches(s, c) ==
    IF is_at_end(s) THEN [st |-> s, result |-> FALSE]
    ELSE IF peek_next_panics(s)
         THEN [st |-> [s EXCEPT !.fault = "index out of bounds"], result |-> FALSE]
    ELSE IF peek_next(s) # c THEN [st |-> s, result |-> FALSE]
    ELSE [st |-> [s EXCEPT !.col = @ + 1, !.current = @ + 1], result |-> TRUE]

NoLiteral == <<>>

add_token_literal(s, token_type, literal) ==
    [s EXCEPT !.tokens = Append(@, [t_type |-> token_type,
                                   lexeme |-> Slice(s.start, s.current),
                                   literal |-> literal,
                                   line |-> s.line,
                                   col |-> s.col]),
              !.spans = Append(@, <<s.start, s.current>>)]

add_token(s, token_type) == add_token_literal(s, token_type, NoLiteral)

get_current_line(s) ==
    IF s.line - 1 < Len(line_string) THEN <<line_string[s.line]>> ELSE <<>>

MakeError(s, msg, arg) ==
    [info |-> [msg |-> msg, arg |-> arg],
     line |-> s.line,
     col |-> s.col,
     line_text |-> IF get_current_line(s) = <<>> THEN <<>>
                   ELSE get_current_line(s)[1]]

set_error(s, msg, arg) == [s EXCEPT !.err = <<MakeError(s, msg, arg)>>]

(***************************************************************************)
(* Literal payloads (enum Literal) and the Option around them.             *)
(***************************************************************************)
LitIdentifier(text) == <<[tag |-> "Identifier", text |-> text, num |-> <<>>]>>
LitStr(text) == <<[tag |-> "Str", text |-> text, num |-> <<>>]>>
LitNumber(val) == <<[tag |-> "Number", text |-> <<>>, num |-> val]>>

(***************************************************************************)
(* identifier, number, string and the comment loop.  A loop hands its      *)
(* state on by value: the next turn starts from the one state n that the   *)
(* advance of this turn left.                                              *)
(***************************************************************************)
RECURSIVE identifier_loop(_)
identifier_loop(s) ==
    IF is_alphanumeric(peek(s))
    THEN CHOOSE r \in { identifier_loop(n) : n \in {advance(s)} } : TRUE
    ELSE s

identifier(s) ==
    LET s1 == identifier_loop(s)
        token_string == Slice(s1.start, s1.current)
        token_type == keywords_get(token_string)
    IN IF ~from_utf8_ok(token_string)
       THEN [s1 EXCEPT !.fault = "unwrap on Utf8Error"]
       ELSE IF token_type = "Identifier"
            THEN add_token_literal(s1, "Identifier", LitIdentifier(token_string))
            ELSE add_token(s1, token_type)

RECURSIVE digits_loop(_)
digits_loop(s) ==
    IF is_decimal_digit(peek(s))
    THEN CHOOSE r \in { digits_loop(n) : n \in {advance(s)} } : TRUE
    ELSE s

number_tail(s3) ==
    LET text == Slice(s3.start, s3.current)
    IN IF ~is_decimal_digit(peek(s3)) /\ peek(s3) # NUL
       THEN set_error(s3, "Invalid string at the end of the number: ", <<peek(s3)>>)
       ELSE IF ~from_utf8_ok(text)
            THEN set_error(s3, "invalid utf-8 sequence", <<>>)
       ELSE IF ~parse_f64_ok(text)
            THEN set_error(s3, "invalid float literal", <<>>)
       ELSE add_token_literal(s3, "Number", LitNumber(parse_f64(text)))

number(s) ==
    LET s1 == digits_loop(s)
    IN IF peek(s1) = DOT /\ peek_next_panics(s1)
       THEN [s1 EXCEPT !.fault = "index out of bounds"]
       ELSE LET s2 == IF peek(s1) = DOT /\ is_decimal_digit(peek_next(s1))
                      THEN advance(s1) ELSE s1
            IN CHOOSE r \in { number_tail(s3) : s3 \in {digits_loop(s2)} } : TRUE

RECURSIVE string_loop(_)
string_loop(s) ==
    IF peek(s) # QUOTE /\ ~is_at_end(s)
    THEN CHOOSE r \in { string_loop(n) : n \in {advance(s)} } : TRUE
    ELSE s

\* string() whose payload keeps the delimiting quotes
string_keeps_quotes(s) ==
    LET s1 == string_loop(s)
        s2 == advance(s1)
        text == Slice(s2.start, s2.current)
    IN IF is_at_end(s1)
       THEN [s1 EXCEPT !.err = <<MakeError(s1, "Unterminated string found", <<>>)>>]
       ELSE IF peek(s1) # QUOTE
            THEN [s1 EXCEPT !.fault = "assertion failed"]
       ELSE IF ~from_utf8_ok(text)
            THEN [s2 EXCEPT !.fault = "unwrap on Utf8Error"]
       ELSE add_token_literal(s2, "String", LitStr(text))

\* string() without the end-of-input test after its loop
string_no_end_check(s) ==
    LET s1 == string_loop(s)
        s2 == advance(s1)
        text == Slice(s2.start + 1, s2.current - 1)
    IN IF peek(s1) # QUOTE
       THEN [s1 EXCEPT !.fault = "assertion failed"]
       ELSE IF ~from_utf8_ok(text)
            THEN [s2 EXCEPT !.fault = "unwrap on Utf8Error"]
       ELSE add_token_literal(s2, "String", LitStr(text))

string(s) ==
    LET s1 == string_loop(s)
        s2 == advance(s1)
        text == Slice(s2.start + 1, s2.current - 1)
    IN IF is_at_end(s1)
       THEN [s1 EXCEPT !.err = <<MakeError(s1, "Unterminated string found", <<>>)>>]
       ELSE IF peek(s1) # QUOTE
            THEN [s1 EXCEPT !.fault = "assertion failed"]
       ELSE IF ~from_utf8_ok(text)
            THEN [s2 EXCEPT !.fault = "unwrap on Utf8Error"]
       ELSE add_token_literal(s2, "String", LitStr(text))

RECURSIVE comment_loop(_)
comment_loop(s) ==
    IF peek(s) # NL /\ ~is_at_end(s)
    THEN CHOOSE r \in { comment_loop(n) : n \in {advance(s)} } : TRUE
    ELSE s

\* the arms of '!', '=', '<', '>'
one_or_two(s, one, two) ==
    LET m == matches(s, EQUALS)
    IN IF m.st.fault # "none" THEN m.st
       ELSE IF m.result THEN add_token(m.st, two)
       ELSE add_token(m.st, one)

\* the arm of '/'
slash(s) ==
    LET m == matches(s, SLASH)
    IN IF m.st.fault # "none" THEN m.st
       ELSE IF m.result THEN comment_loop(m.st)
       ELSE add_token(m.st, "Slash")

(***************************************************************************)
(* Inputs.  scan_tokens takes a String, so every input is well-formed      *)
(* UTF-8: inputs are enumerated as sequences of characters, each character *)
(* its UTF-8 encoding.                                                     *)
(***************************************************************************)
Alphabet ==
    { <<BANG>>, <<EQUALS>>, <<LESS>>, <<GREATER>>, <<SLASH>>, <<QUOTE>>,
      <<NL>>, <<SPACE>>, <<DOT>>,
      <<43>>,          \* +
      <<48>>, <<49>>,  \* 0 1
      <<102>>, <<111>>, <<114>>,  \* f o r
      <<64>>,          \* @
      <<195, 169>> }   \* e with acute accent, U+00E9

RECURSIVE Flatten(_)
Flatten(cs) == IF cs = <<>> THEN <<>> ELSE Head(cs) \o Flatten(Tail(cs))

Samples ==
    { <<49, 50, 51, 46, 51, 50>>,                          \* 123.32
      <<34, 104, 101, 108, 108, 111, 34>>,                 \* "hello"
      <<34, 104, 101, 108, 108, 111>>,                     \* "hello
      <<97, 110, 100, 32, 111, 114, 32, 99, 108, 97, 115, 115, 105, 102, 121>>,
                                                           \* and or classify
      <<49, 32, 43, 32, 50, 32, 47, 47, 32, 99, 111, 109, 109, 101, 110, 116, 10, 51>>,
                                                           \* 1 + 2 // comment\n3
      <<97, 98, 99, 49, 50, 51>>,                          \* abc123
      <<97, 47, 98, 47, 47, 99, 10, 33>>,                  \* a/b//c\n!
      <<49, 0, 43>> }                                      \* 1 NUL +

Inputs ==
    { Flatten(cs) : cs \in UNION { [1..n -> Alphabet] : n \in 0..MaxLen } }
    \cup Samples

(***************************************************************************)
(* The state machine: Scanner::default(), then scan_tokens(input), whose   *)
(* loop runs scan_token until done().                                      *)
(***************************************************************************)
\* a call record: the operation and its arguments
Call(op, con, ins, name) == [op |-> op, con |-> con, ins |-> ins, name |-> name]

\* enum Constant
ConstNumber(n) == [tag |-> "Number", num |-> n, str |-> ""]
ConstString(s) == [tag |-> "String", num |-> 0, str |-> s]

\* an (Op, LineNo) pair; idx is the operand of Op::Constant
Instr(op, idx, lineno) == [op |-> op, idx |-> idx, line |-> lineno]

NoCall == Call("none", ConstNumber(0), Instr("Return", 0, 0), "")

\* what a call returned: an index, a text (sequence of rows), or a panic
RetNone == [kind |-> "none", idx |-> 0, text |-> <<>>]
RetIndex(i) == [kind |-> "index", idx |-> i, text |-> <<>>]
RetText(rows) == [kind |-> "text", idx |-> 0, text |-> rows]
RetPanic == [kind |-> "panic", idx |-> 0, text |-> <<>>]

Init ==
    /\ code = <<>>
    /\ constants = <<>>
    /\ call = NoCall
    /\ ret = RetNone
    /\ direct_strings = FALSE
    /\ source = <<>>
    /\ line_string = <<>>
    /\ tokens = <<>>
    /\ spans = <<>>
    /\ err = <<>>
    /\ start = 0
    /\ current = 0
    /\ line = 1
    /\ col = 0
    /\ pc = "idle"
    /\ fault = "none"

scan_tokens ==
    /\ pc = "idle"
    /\ \E input \in Inputs :
          /\ source' = input
          /\ line_string' = Lines(input)
    /\ pc' = "scanning"
    /\ UNCHANGED <<tokens, spans, err, start, current, line, col, fault>>
    /\ UNCHANGED chunk_vars

\* the loop condition holds: self.start = self.current; let c = self.advance()
InLoop == pc = "scanning" /\ ~done

\* the loop body without self.start = self.current
Entered_keeps_start == advance(Self)

Entered == advance([Self EXCEPT !.start = current])

\* the character advance returned; a panic inside advance returns none
c == IF Entered.fault # "none" THEN NUL ELSE advanced_char(Entered)

Commit(s) ==
    /\ \E r \in {s} :
          /\ tokens' = r.tokens
          /\ spans' = r.spans
          /\ err' = r.err
          /\ start' = r.start
          /\ current' = r.current
          /\ line' = r.line
          /\ col' = r.col
          /\ fault' = r.fault
          /\ pc' = IF r.fault # "none" THEN "panicked" ELSE "scanning"
    /\ UNCHANGED <<source, line_string>>
    /\ UNCHANGED chunk_vars

ScanSingle ==
    /\ InLoop
    /\ c \in DOMAIN SingleCharTokens
    /\ Commit(add_token(Entered, SingleCharTokens[c]))

ScanBang ==
    /\ InLoop
    /\ c = BANG
    /\ Commit(one_or_two(Entered, "Bang", "BangEqual"))

ScanEqual ==
    /\ InLoop
    /\ c = EQUALS
    /\ Commit(one_or_two(Entered, "Equal", "EqualEqual"))

ScanLess ==
    /\ InLoop
    /\ c = LESS
    /\ Commit(one_or_two(Entered, "Less", "LessEqual"))

ScanGreater ==
    /\ InLoop
    /\ c = GREATER
    /\ Commit(one_or_two(Entered, "Greater", "GreaterEqual"))

ScanSlash ==
    /\ InLoop
    /\ c = SLASH
    /\ Commit(slash(Entered))

ScanWhitespace ==
    /\ InLoop
    /\ c \in {SPACE, CR, TAB}
    /\ Commit(Entered)

ScanNewline ==
    /\ InLoop
    /\ c = NL
    /\ Commit([Entered EXCEPT !.line = @ + 1, !.col = 0])

ScanString ==
    /\ InLoop
    /\ c = QUOTE
    /\ Commit(string(Entered))

Dispatched(ch) ==
    \/ ch \in DOMAIN SingleCharTokens
    \/ ch \in {BANG, EQUALS, LESS, GREATER, SLASH, SPACE, CR, TAB, NL, QUOTE}

ScanNumber ==
    /\ InLoop
    /\ ~Dispatched(c)
    /\ is_decimal_digit(c)
    /\ Commit(number(Entered))

ScanIdentifier ==
    /\ InLoop
    /\ ~Dispatched(c)
    /\ ~is_decimal_digit(c)
    /\ is_alpha(c)
    /\ Commit(identifier(Entered))

ScanOther ==
    /\ InLoop
    /\ ~Dispatched(c)
    /\ ~is_decimal_digit(c)
    /\ ~is_alpha(c)
    /\ Commit(IF Entered.fault # "none" THEN Entered
              ELSE set_error(Entered, "Scanner can't handle: ", <<c>>))

\* the loop end that appends an end-of-input token, as the reference
\* scanner of the book does
ScanEnd_emits_eof ==
    /\ pc = "scanning"
    /\ done
    /\ pc' = "done"
    /\ tokens' = Append(tokens, [t_type |-> "Eof", lexeme |-> <<>>,
                                 literal |-> NoLiteral, line |-> line,
                                 col |-> col])
    /\ spans' = Append(spans, <<current, current>>)
    /\ UNCHANGED <<source, line_string, err, start, current, line, col, fault>>
    /\ UNCHANGED chunk_vars

\* the loop ends; the error, if any, is printed
ScanEnd ==
    /\ pc = "scanning"
    /\ done
    /\ pc' = "done"
    /\ UNCHANGED <<source, line_string, tokens, spans, err, start, current,
                   line, col, fault>>
    /\ UNCHANGED chunk_vars

Next ==
    \/ scan_tokens
    \/ ScanSingle
    \/ ScanBang
    \/ ScanEqual
    \/ ScanLess
    \/ ScanGreater
    \/ ScanSlash
    \/ ScanWhitespace
    \/ ScanNewline
    \/ ScanString
    \/ ScanNumber
    \/ ScanIdentifier
    \/ ScanOther
    \/ ScanEnd

Spec == Init /\ [][Next]_vars

\* scan_tokens is one sequential loop on one thread: a step that can be
\* taken is taken
SpecLive == Spec /\ WF_vars(Next)

(***************************************************************************)
(* The Chunk and its constant pool.  Pool indices are 0-based as in the    *)
(* code: the entry at index i is constants[i + 1].                         *)
(*                                                                         *)
(* An f64 is modelled by an integer n that stands for n * 2^-54; f64       *)
(* subtraction and comparison are exact on these values, and f64::EPSILON  *)
(* = 2^-52 is 4.  One more value stands for f64::NAN, with the arithmetic  *)
(* of IEEE 754: a difference with NaN is NaN, its absolute value is NaN,   *)
(* and every comparison with NaN is false.  An infinity behaves like NaN   *)
(* in find_number (inf - inf is NaN) and is not tried separately.          *)
(***************************************************************************)
EPSILON == 4

NaN == 1000

Abs(x) == IF x < 0 THEN -x ELSE x

\* f64 operator -
f64_sub(a, b) == IF a = NaN \/ b = NaN THEN NaN ELSE a - b

\* f64::abs
f64_abs(x) == IF x = NaN THEN NaN ELSE Abs(x)

\* f64 operator <
f64_lt(a, b) == a # NaN /\ b # NaN /\ a < b

Chunk == [code |-> code, constants |-> constants]

\* add_constant that puts the new entry first
add_constant_in_front(ch, val) ==
    [chunk |-> [ch EXCEPT !.constants = <<val>> \o @], ret |-> 0]

add_constant(ch, val) ==
    [chunk |-> [ch EXCEPT !.constants = Append(@, val)],
     ret |-> Len(ch.constants)]

\* Iterator::position from index i on: Some(index) as <<index>>, None as <<>>
RECURSIVE string_position(_, _, _)
string_position(pool, to_find, i) ==
    IF i >= Len(pool) THEN <<>>
    ELSE IF pool[i + 1].tag = "String" /\ pool[i + 1].str = to_find THEN <<i>>
    ELSE string_position(pool, to_find, i + 1)

find_string(ch, to_find) == string_position(ch.constants, to_find, 0)

\* add_constant_string that appends without looking the text up
add_constant_string_no_lookup(ch, to_add) ==
    add_constant(ch, ConstString(to_add))

add_constant_string(ch, to_add) ==
    IF find_string(ch, to_add) # <<>>
    THEN [chunk |-> ch, ret |-> find_string(ch, to_add)[1]]
    ELSE add_constant(ch, ConstString(to_add))

\* the comparison of find_number without abs()
number_close_no_abs(to_find, value) ==
    f64_lt(f64_sub(to_find, value), EPSILON)

number_close(to_find, value) ==
    f64_lt(f64_abs(f64_sub(to_find, value)), EPSILON)

\* the search of find_number without the `if let Constant::Number` test
RECURSIVE number_position_any_kind(_, _, _)
number_position_any_kind(pool, to_find, i) ==
    IF i >= Len(pool) THEN <<>>
    ELSE IF number_close(to_find, pool[i + 1].num) THEN <<i>>
    ELSE number_position_any_kind(pool, to_find, i + 1)

RECURSIVE number_position(_, _, _)
number_position(pool, to_find, i) ==
    IF i >= Len(pool) THEN <<>>
    ELSE IF pool[i + 1].tag = "Number" /\ number_close(to_find, pool[i + 1].num)
         THEN <<i>>
    ELSE number_position(pool, to_find, i + 1)

find_number(ch, to_find) == number_position(ch.constants, to_find, 0)

add_constant_number(ch, num) ==
    IF find_number(ch, num) # <<>>
    THEN [chunk |-> ch, ret |-> find_number(ch, num)[1]]
    ELSE add_constant(ch, ConstNumber(num))

(***************************************************************************)
(* The disassembler.  A row of the listing is kept as its parts, not as    *)
(* formatted text: kind, the index printed in front, the body and the line *)
(* number.  join("\n") puts a newline row between two rows.                *)
(***************************************************************************)
Row(kind, idx, body, lineno) ==
    [kind |-> kind, idx |-> idx, body |-> body, line |-> lineno]

\* the parts of a body: a fixed text, and for a constant its Display
Body(text, shown, operand) == [text |-> text, shown |-> shown, operand |-> operand]

\* impl Display for Constant: a Number as its decimal value, a String quoted
Display(con) ==
    IF con.tag = "Number"
    THEN [quoted |-> FALSE, num |-> con.num, str |-> ""]
    ELSE [quoted |-> TRUE, num |-> 0, str |-> con.str]

NoDisplay == <<>>

Mnemonic ==
    ("Return" :> "OP_RETURN") @@ ("Nil" :> "OP_NIL") @@ ("True" :> "OP_TRUE") @@
    ("False" :> "OP_FALSE") @@ ("Negate" :> "OP_NEGATE") @@ ("Add" :> "OP_ADD") @@
    ("Subtract" :> "OP_SUBTRACT") @@ ("Multiply" :> "OP_MULTIPLY") @@
    ("Equal" :> "OP_EQUAL") @@ ("Greater" :> "OP_GREATER") @@
    ("Less" :> "OP_LESS") @@ ("Divide" :> "OP_DIVIDE") @@ ("Pop" :> "OP_POP") @@
    ("Print" :> "OP_PRINT") @@ ("Not" :> "OP_NOT")

\* chunk.constants.get(constant_idx) is None
constant_missing(ch, ins) ==
    ins.op = "Constant" /\ ins.idx >= Len(ch.constants)

formatted_op(ch, ins) ==
    IF ins.op = "Constant"
    THEN Body("OP_CONSTANT", <<Display(ch.constants[ins.idx + 1])>>, <<ins.idx>>)
    ELSE Body(Mnemonic[ins.op], NoDisplay, <<>>)

\* the loop of dis_code from instruction idx on: the rows, or a panic
RECURSIVE dis_code_from(_, _)
dis_code_from(ch, idx) ==
    IF idx >= Len(ch.code) THEN [panic |-> FALSE, lines |-> <<>>]
    ELSE IF constant_missing(ch, ch.code[idx + 1])
         THEN [panic |-> TRUE, lines |-> <<>>]
    ELSE LET rest == dis_code_from(ch, idx + 1)
         IN [panic |-> rest.panic,
             lines |-> <<Row("code", idx, formatted_op(ch, ch.code[idx + 1]),
                             ch.code[idx + 1].line)>> \o rest.lines]

dis_code(ch) == dis_code_from(ch, 0)

RECURSIVE join(_)
join(lines) ==
    IF Len(lines) <= 1 THEN lines
    ELSE <<Head(lines), Row("newline", 0, Body("\n", NoDisplay, <<>>), 0)>>
         \o join(Tail(lines))

banner(name) ==
    IF name # "" THEN <<Row("banner", 0, Body(name, NoDisplay, <<>>), 0)>>
    ELSE <<>>

constant_rows(ch) ==
    [i \in 1..Len(ch.constants) |->
        Row("constant", i - 1,
            Body("", <<Display(ch.constants[i])>>, <<>>), 0)]

dis_chunk(ch, name) ==
    IF dis_code(ch).panic THEN RetPanic
    ELSE RetText(join(
            banner(name)
            \o <<Row("constants header", 0,
                     Body("------------ constants ------------", NoDisplay, <<>>), 0)>>
            \o constant_rows(ch)
            \o <<Row("code header", 0,
                     Body("\n------------ code -----------------", NoDisplay, <<>>), 0)>>
            \o dis_code(ch).lines))

(***************************************************************************)
(* Building and disassembling a Chunk.  The arguments tried:               *)
(***************************************************************************)
Strings == {"a", "b"}

\* 0 and 1, and 1 and 4, are closer than EPSILON; 0 and 4 are not; NaN is
\* close to nothing
Numbers == {0, 1, 4, NaN}

ConstantValues ==
    { ConstString(s) : s \in Strings } \cup { ConstNumber(n) : n \in Numbers }

\* two instructions without operand, and Constant with the first and the
\* second pool index, on lines 1 and 2
Instructions ==
    { Instr("Return", 0, 1), Instr("Return", 0, 2),
      Instr("Constant", 0, 1), Instr("Constant", 1, 2) }

Names == {"", "main"}

\* a panic has ended the process
Alive == ret.kind # "panic"

Returned(r, op, con) ==
    /\ constants' = r.chunk.constants
    /\ code' = r.chunk.code
    /\ ret' = RetIndex(r.ret)
    /\ call' = Call(op, con, NoCall.ins, "")
    /\ direct_strings' = (direct_strings \/ (op = "add_constant" /\ con.tag = "String"))
    /\ UNCHANGED scanner_vars

AddConstant ==
    /\ Alive
    /\ Len(constants) < MaxPool
    /\ \E val \in ConstantValues :
          Returned(add_constant(Chunk, val), "add_constant", val)

AddConstantString ==
    /\ Alive
    /\ \E s \in Strings :
          /\ Len(constants) < MaxPool \/ find_string(Chunk, s) # <<>>
          /\ Returned(add_constant_string(Chunk, s), "add_constant_string",
                      ConstString(s))

AddConstantNumber ==
    /\ Alive
    /\ \E n \in Numbers :
          /\ Len(constants) < MaxPool \/ find_number(Chunk, n) # <<>>
          /\ Returned(add_constant_number(Chunk, n), "add_constant_number",
                      ConstNumber(n))

\* chunk.code.push((op, line))
PushCode ==
    /\ Alive
    /\ Len(code) < MaxCode
    /\ \E ins \in Instructions :
          /\ code' = Append(code, ins)
          /\ call' = Call("push", NoCall.con, ins, "")
    /\ ret' = RetNone
    /\ UNCHANGED <<constants, direct_strings>>
    /\ UNCHANGED scanner_vars

DisChunk ==
    /\ Alive
    /\ \E name \in Names :
          /\ ret' = dis_chunk(Chunk, name)
          /\ call' = Call("dis_chunk", NoCall.con, NoCall.ins, name)
    /\ UNCHANGED <<code, constants, direct_strings>>
    /\ UNCHANGED scanner_vars

NextChunk ==
    \/ AddConstant
    \/ AddConstantString
    \/ AddConstantNumber
    \/ PushCode
    \/ DisChunk

SpecChunk == Init /\ [][NextChunk]_vars

(***************************************************************************)
(* Vocabulary of the properties.  These read the source text directly and  *)
(* do not use the scanner's own helpers.                                   *)
(***************************************************************************)
Started == pc # "idle"

Byte(off) == source[off + 1]

HasByte(off, ch) == off >= 0 /\ off < Len(source) /\ source[off + 1] = ch

\* the steps of scan_token that begin at a given character
StepsOn(ch) == pc = "scanning" /\ err = <<>> /\ HasByte(current, ch)

RECURSIVE Pow10(_)
Pow10(n) == IF n = 0 THEN 1 ELSE 10 * Pow10(n - 1)

\* digits, or digits '.' digits
IsNumberText(b) ==
    /\ b # <<>>
    /\ \A i \in 1..Len(b) : b[i] \in 48..57 \/ b[i] = DOT
    /\ Cardinality({ i \in 1..Len(b) : b[i] = DOT }) <= 1
    /\ b[1] # DOT
    /\ b[Len(b)] # DOT

FractionDigits(b) ==
    IF \E i \in 1..Len(b) : b[i] = DOT
    THEN Len(b) - (CHOOSE i \in 1..Len(b) : b[i] = DOT)
    ELSE 0

AllDigits(b) == SelectSeq(b, LAMBDA x : x # DOT)

\* <<m, s>> is the value of the decimal text b
IsValueOf(val, b) ==
    val[1] * Pow10(FractionDigits(b)) = DigitsValue(AllDigits(b)) * Pow10(val[2])

\* C1: scan_tokens never faults on a read of the source buffer: no read by
\* advance, peek, peek_next or matches is at an offset >= len(source), and
\* the scan ends with the error unset or set, never with a panic.
C1_ReadsInBounds ==
    /\ fault # "index out of bounds"
    /\ fault # "assertion failed"

\* C2: once the error is set the loop makes no further scan_token step: the
\* tokens, the error and the offsets never change again.
C2_SingleError ==
    [][err # <<>> =>
         /\ err' = err
         /\ tokens' = tokens
         /\ current' = current
         /\ start' = start
         /\ pc' # "scanning"]_vars

\* C2 witness: the scan has stopped on an error with tokens before it and a
\* well-formed token still unread after it.
C2_Witness ==
    /\ pc = "done"
    /\ err # <<>>
    /\ tokens # <<>>
    /\ current < Len(source)
    /\ Byte(current) \in DOMAIN SingleCharTokens

OneCharKind == (BANG :> "Bang") @@ (EQUALS :> "Equal") @@ (LESS :> "Less")
               @@ (GREATER :> "Greater")

TwoCharKind == (BANG :> "BangEqual") @@ (EQUALS :> "EqualEqual")
               @@ (LESS :> "LessEqual") @@ (GREATER :> "GreaterEqual")

\* C3: maximal munch for '!', '=', '<', '>': a token that starts at one of
\* them is the two-character token with a two-byte lexeme when the next
\* source character is '=', and the one-character token with a one-byte
\* lexeme otherwise.
C3_MaximalMunch ==
    \A i \in 1..Len(tokens) :
        LET s == spans[i][1]
            first == Byte(s)
        IN first \in DOMAIN OneCharKind =>
              IF HasByte(s + 1, EQUALS)
              THEN /\ tokens[i].t_type = TwoCharKind[first]
                   /\ tokens[i].lexeme = <<first, EQUALS>>
              ELSE /\ tokens[i].t_type = OneCharKind[first]
                   /\ tokens[i].lexeme = <<first>>

\* C4: a '/' immediately followed by '/' starts a line comment and yields no
\* token; a '/' not followed by '/' yields exactly the Slash token "/".
C4_LineComment ==
    \A i \in 1..Len(tokens) :
        LET s == spans[i][1]
        IN Byte(s) = SLASH =>
              /\ ~HasByte(s + 1, SLASH)
              /\ tokens[i].t_type = "Slash"
              /\ tokens[i].lexeme = <<SLASH>>

\* C5: an input that is only a digit run, optionally with one '.' and at
\* least one digit after it, scans to exactly one Number token whose lexeme
\* is the input and whose payload is its numeric value, with no error.
C5_NumberLiteral ==
    (pc \in {"done", "panicked"} /\ IsNumberText(source)) =>
        /\ pc = "done"
        /\ err = <<>>
        /\ Len(tokens) = 1
        /\ tokens[1].t_type = "Number"
        /\ tokens[1].lexeme = source
        /\ tokens[1].literal # <<>>
        /\ tokens[1].literal[1].tag = "Number"
        /\ IsValueOf(tokens[1].literal[1].num, source)

\* C5 witness: 123.32 has been scanned to Number(12332 / 10^2).
C5_Witness ==
    /\ pc = "done"
    /\ source = <<49, 50, 51, 46, 51, 50>>
    /\ Len(tokens) = 1
    /\ tokens[1].literal = LitNumber(<<12332, 2>>)

\* the alphabetic run that starts at the read offset, as the code classifies
\* characters
AlphaRunEnd ==
    CHOOSE j \in (current + 1)..Len(source) :
        /\ \A k \in current..(j - 1) : is_alpha(Byte(k))
        /\ (j < Len(source) => ~is_alpha(Byte(j)))

AlphaRun == SubSeq(source, current + 1, AlphaRunEnd)

\* C6: keyword matching is exact: a step that starts at an alphabetic
\* character appends one token for the alphabetic run, the keyword token
\* without payload when the run is a reserved word and otherwise an
\* Identifier token whose payload is the run.
C6_KeywordExact ==
    [][(pc = "scanning" /\ err = <<>> /\ current < Len(source)
        /\ is_alpha(Byte(current))) =>
         /\ Len(tokens') = Len(tokens) + 1
         /\ tokens'[Len(tokens')].lexeme = AlphaRun
         /\ IF \E kw \in keywords : kw[1] = AlphaRun
            THEN \E kw \in keywords :
                    /\ kw[1] = AlphaRun
                    /\ tokens'[Len(tokens')].t_type = kw[2]
                    /\ tokens'[Len(tokens')].literal = <<>>
            ELSE /\ tokens'[Len(tokens')].t_type = "Identifier"
                 /\ tokens'[Len(tokens')].literal = LitIdentifier(AlphaRun)]_vars

\* offset of the first '"' after the opening quote at the read offset, or
\* len(source) when there is none
ClosingQuote ==
    CHOOSE q \in (current + 1)..Len(source) :
        /\ \A k \in (current + 1)..(q - 1) : Byte(k) # QUOTE
        /\ (q < Len(source) => Byte(q) = QUOTE)

\* C7: a string literal closed before the end of input appends exactly one
\* String token whose lexeme includes both quotes and whose payload is the
\* bytes strictly between them, newlines included, with no escape handling.
C7_ClosedString ==
    [][(StepsOn(QUOTE) /\ ClosingQuote < Len(source)) =>
         /\ Len(tokens') = Len(tokens) + 1
         /\ SubSeq(tokens', 1, Len(tokens)) = tokens
         /\ tokens'[Len(tokens')].t_type = "String"
         /\ tokens'[Len(tokens')].lexeme =
               SubSeq(source, current + 1, ClosingQuote + 1)
         /\ tokens'[Len(tokens')].literal =
               LitStr(SubSeq(source, current + 2, ClosingQuote))
         /\ err' = <<>>
         /\ fault' = "none"]_vars

\* C7 witness: a String token whose payload holds a newline has been emitted.
C7_Witness ==
    \E i \in 1..Len(tokens) :
        /\ tokens[i].t_type = "String"
        /\ tokens[i].literal = LitStr(<<NL>>)
        /\ tokens[i].lexeme = <<QUOTE, NL, QUOTE>>

\* C8: a '"' with no closing '"' before the end of input sets the error to
\* the unterminated-string message, emits no token and leaves the tokens
\* emitted before it as they were.
C8_UnterminatedString ==
    [][(StepsOn(QUOTE) /\ ClosingQuote = Len(source)) =>
         /\ err' # <<>>
         /\ err'[1].info.msg = "Unterminated string found"
         /\ tokens' = tokens
         /\ fault' = "none"]_vars

\* C8 witness: the scan has ended on the unterminated-string error with a
\* token emitted before the opening quote.
C8_Witness ==
    /\ pc = "done"
    /\ err # <<>>
    /\ err[1].info.msg = "Unterminated string found"
    /\ tokens # <<>>
    /\ \A i \in 1..Len(tokens) : tokens[i].t_type # "String"

\* C9: every token's lexeme is the source bytes from its start offset to the
\* read offset at which it was emitted, and the tokens lie in the source in
\* increasing order without overlap.
C9_LexemeIsConsumedText ==
    /\ Len(spans) = Len(tokens)
    /\ \A i \in 1..Len(tokens) :
          /\ 0 <= spans[i][1]
          /\ spans[i][1] < spans[i][2]
          /\ spans[i][2] <= Len(source)
          /\ tokens[i].lexeme = SubSeq(source, spans[i][1] + 1, spans[i][2])
          /\ (i > 1 => spans[i - 1][2] <= spans[i][1])

\* C9 witness: two tokens have been emitted with skipped text between them.
C9_Witness ==
    /\ Len(tokens) >= 2
    /\ spans[1][2] < spans[2][1]

\* C10: when the bytes consumed for a token are not valid UTF-8 the scan
\* reports it through the error field and does not crash.
C10_InvalidTextReported ==
    (Started /\ start < current /\ ~from_utf8_ok(Slice(start, current))) =>
        /\ fault = "none"
        /\ err # <<>>

\* C16: the scan never emits a token of kind Eof.
C16_NoEofToken ==
    \A i \in 1..Len(tokens) : tokens[i].t_type # "Eof"

\* C16 witness: a scan has run to the end of its input without error and
\* its tokens end with a real token.
C16_Witness ==
    /\ pc = "done"
    /\ err = <<>>
    /\ current = Len(source)
    /\ tokens # <<>>
    /\ tokens[Len(tokens)].t_type = "Plus"

\* C17: scanning the empty text makes no scan step and ends with no token
\* and no error.
C17_EmptyText ==
    (Started /\ source = <<>>) =>
        /\ tokens = <<>>
        /\ err = <<>>
        /\ fault = "none"
        /\ pc \in {"scanning", "done"}
        /\ current = 0
        /\ start = 0
        /\ line = 1
        /\ col = 0

\* C17 witness: the scan of the empty text has ended.
C17_Witness ==
    /\ pc = "done"
    /\ source = <<>>
    /\ tokens = <<>>
    /\ err = <<>>

IsLetterOrDigit(ch) == is_alpha(ch) \/ ch \in 48..57

\* C18: an identifier or keyword token takes the maximal run of letters and
\* digits after its first letter: the character right after the token, if
\* any, is neither a letter nor a digit.
C18_IdentifierMaximalRun ==
    \A i \in 1..Len(tokens) :
        is_alpha(Byte(spans[i][1])) =>
            (spans[i][2] < Len(source) => ~IsLetterOrDigit(Byte(spans[i][2])))

\* end of the digit run that starts at offset i
DigitRunEnd(i) ==
    CHOOSE j \in i..Len(source) :
        /\ \A k \in i..(j - 1) : Byte(k) \in 48..57
        /\ (j < Len(source) => Byte(j) \notin 48..57)

\* end of the numeric literal at the read offset: digits, then '.' and
\* digits when a digit follows the '.'
NumberEnd ==
    LET d == DigitRunEnd(current)
    IN IF HasByte(d, DOT) /\ d + 1 < Len(source) /\ Byte(d + 1) \in 48..57
       THEN DigitRunEnd(d + 1)
       ELSE d

\* C19: a numeric literal immediately followed by a character that is not a
\* digit, with input not ended, sets the error and emits no Number token.
C19_NumberTrailingChar ==
    [][(pc = "scanning" /\ err = <<>> /\ current < Len(source)
        /\ Byte(current) \in 48..57 /\ NumberEnd < Len(source)) =>
         /\ err' # <<>>
         /\ tokens' = tokens
         /\ fault' = "none"]_vars

NewlinesIn(b) == Cardinality({ i \in 1..Len(b) : b[i] = NL })

\* C20: every newline byte consumed increments the line counter: the line
\* counter is 1 plus the number of newline bytes consumed so far, and each
\* token's line is the source line on which it ends.
C20_LineCounter ==
    /\ Started => line = 1 + NewlinesIn(SubSeq(source, 1, current))
    /\ \A i \in 1..Len(tokens) :
          tokens[i].line = 1 + NewlinesIn(SubSeq(source, 1, spans[i][2]))

(***************************************************************************)
(* Vocabulary of the Chunk properties.                                     *)
(***************************************************************************)
\* 1-based positions of the String entries equal to s
StringEntries(pool, s) ==
    { i \in 1..Len(pool) : pool[i].tag = "String" /\ pool[i].str = s }

\* 1-based positions of the Number entries closer than epsilon to v
CloseEntries(pool, v) ==
    { i \in 1..Len(pool) :
        /\ pool[i].tag = "Number"
        /\ pool[i].num # NaN
        /\ v # NaN
        /\ pool[i].num - v < EPSILON
        /\ v - pool[i].num < EPSILON }

Least(S) == CHOOSE i \in S : \A j \in S : i <= j

NoDuplicateStrings(pool) ==
    \A i, j \in 1..Len(pool) :
        (pool[i].tag = "String" /\ pool[j].tag = "String"
         /\ pool[i].str = pool[j].str) => i = j

\* a call of add_constant_string whose text is in the pool returns the
\* index of the first entry equal to it and leaves the pool as it was
InternHitReturnsEntry ==
    (call'.op = "add_constant_string"
     /\ StringEntries(constants, call'.con.str) # {}) =>
        /\ ret'.kind = "index"
        /\ ret'.idx = Least(StringEntries(constants, call'.con.str)) - 1
        /\ constants' = constants

\* C11: the pool never holds two String entries with the same content, and
\* add_constant_string with a text already in the pool returns that entry's
\* index without growing the pool.
C11_StringsUnique ==
    /\ NoDuplicateStrings(constants)
    /\ call.op = "add_constant_string" =>
          /\ ret.kind = "index"
          /\ ret.idx < Len(constants)
          /\ constants[ret.idx + 1] = ConstString(call.con.str)

\* C11 as amended: the same, for a pool to which no String was added by a
\* direct call of add_constant.
C11_InternedStringsUnique ==
    [][/\ ~direct_strings' => NoDuplicateStrings(constants')
       /\ InternHitReturnsEntry]_vars

\* C11 witness: add_constant_string has just returned the index of an entry
\* that was already in a pool of two, built without add_constant of a String.
C11_Witness ==
    /\ ~direct_strings
    /\ call.op = "add_constant_string"
    /\ call.con.str = "a"
    /\ ret = RetIndex(0)
    /\ constants = <<ConstString("a"), ConstString("b")>>

C13_IndexStability ==
    [][/\ Len(constants') >= Len(constants)
       /\ SubSeq(constants', 1, Len(constants)) = constants]_vars

\* C13 witness: after the pool grew to two entries an interning call has
\* returned the index of the first one again.
C13_Witness ==
    /\ Len(constants) = 2
    /\ call.op \in {"add_constant_string", "add_constant_number"}
    /\ ret = RetIndex(0)

RowsOfKind(rows, kind) == SelectSeq(rows, LAMBDA r : r.kind = kind)

MnemonicOf(ins) ==
    IF ins.op = "Constant" THEN "OP_CONSTANT" ELSE Mnemonic[ins.op]

\* the listing has one code row for each instruction, in order
CodeRowsMatch(rows) ==
    /\ Len(RowsOfKind(rows, "code")) = Len(code)
    /\ \A i \in 1..Len(code) :
          /\ RowsOfKind(rows, "code")[i].idx = i - 1
          /\ RowsOfKind(rows, "code")[i].line = code[i].line
          /\ RowsOfKind(rows, "code")[i].body.text = MnemonicOf(code[i])

\* the listing has one constants row for each pool entry, in order
ConstantRowsMatch(rows) ==
    /\ Len(RowsOfKind(rows, "constant")) = Len(constants)
    /\ \A i \in 1..Len(constants) :
          /\ RowsOfKind(rows, "constant")[i].idx = i - 1
          /\ RowsOfKind(rows, "constant")[i].body.shown = <<Display(constants[i])>>

\* C14: the disassembly of a Chunk built from instruction appends and
\* add_constant calls has exactly one code row per (Op, line) pair, in
\* append order and numbered by position, one constants row per pool entry,
\* in pool order, and the banner row iff the name is not empty.
C14_ListingRows ==
    call.op = "dis_chunk" =>
        /\ ret.kind = "text"
        /\ CodeRowsMatch(ret.text)
        /\ ConstantRowsMatch(ret.text)
        /\ (Len(RowsOfKind(ret.text, "banner")) = 1) = (call.name # "")
        /\ Len(RowsOfKind(ret.text, "banner")) <= 1

Dangling(ins) == ins.op = "Constant" /\ ins.idx >= Len(constants)

\* C15: disassembling a Chunk with a Constant(index) instruction whose
\* index is not below the pool length does not crash: the listing is
\* returned and holds the rows of all the other instructions.
C15_DanglingIndexReported ==
    (call.op = "dis_chunk" /\ \E i \in 1..Len(code) : Dangling(code[i])) =>
        /\ ret.kind = "text"
        /\ \A i \in 1..Len(code) :
              ~Dangling(code[i]) =>
                 \E k \in 1..Len(ret.text) :
                    /\ ret.text[k].kind = "code"
                    /\ ret.text[k].idx = i - 1

\* a step of scan_token moves the read offset forward or sets the error
StepProgresses == InLoop => (current' > current \/ err' # <<>>)

\* the offsets stay ordered and inside the text
OffsetsInRange == start <= current /\ current <= Len(source)

\* the loop of scan_tokens has run to its end: done() was true at its test
LoopEnded == pc = "done" /\ done

\* C21: every step of scan_token strictly increases the read offset or sets
\* the error, start <= current <= len(source) in every reachable state, and
\* the loop ends with done() true on every input.
C21_ScanTerminates ==
    /\ [][StepProgresses]_vars
    /\ []OffsetsInRange
    /\ <>LoopEnded


AddOps == {"add_constant", "add_constant_string", "add_constant_number"}

\* the entry is a String with the text s
IsStringEntry(e, s) == e.tag = "String" /\ e.str = s

\* the entry is a Number whose distance to v is below epsilon in f64
\* arithmetic
IsCloseEntry(e, v) ==
    /\ e.tag = "Number"
    /\ e.num # NaN
    /\ v # NaN
    /\ e.num - v < EPSILON
    /\ v - e.num < EPSILON

\* the entry is the Number v itself, bit for bit
IsSameNumber(e, v) == e.tag = "Number" /\ e.num = v

\* the returned index is inside the pool as the call left it
IndexInPool == ret'.kind = "index" /\ ret'.idx < Len(constants')

\* C22: every index returned by add_constant, add_constant_string or
\* add_constant_number is below the pool length after the call and denotes a
\* String equal to the argument, or a Number within epsilon of the argument,
\* never an entry of the other kind; none of the three changes the code.
C22_ReturnedIndexDenotesArgument ==
    [][call'.op \in AddOps =>
         /\ IndexInPool
         /\ IF call'.con.tag = "String"
            THEN IsStringEntry(constants'[ret'.idx + 1], call'.con.str)
            ELSE IsCloseEntry(constants'[ret'.idx + 1], call'.con.num)
         /\ code' = code]_vars

\* C22 as amended: the same, where a Number entry that the call itself
\* appended is the argument itself; for NaN that is not within epsilon.
C22_ReturnedIndexDenotesArgumentOrItself ==
    [][call'.op \in AddOps =>
         /\ IndexInPool
         /\ IF call'.con.tag = "String"
            THEN IsStringEntry(constants'[ret'.idx + 1], call'.con.str)
            ELSE \/ IsCloseEntry(constants'[ret'.idx + 1], call'.con.num)
                 \/ /\ ret'.idx = Len(constants)
                    /\ IsSameNumber(constants'[ret'.idx + 1], call'.con.num)
         /\ code' = code]_vars

\* C22 witness: with an instruction in the code, add_constant_number of NaN
\* has passed over a String entry, appended NaN and returned its index.
C22_Witness ==
    /\ code # <<>>
    /\ call.op = "add_constant_number"
    /\ call.con.num = NaN
    /\ ret = RetIndex(1)
    /\ constants = <<ConstString("a"), ConstNumber(NaN)>>

====
